---- MODULE Spec2Model ----
(***************************************************************************)
(* flowd: the download lifecycle engine.                                   *)
(*                                                                         *)
(* The store (core/db.rs), the executor's control loop and transfer state  *)
(* machine (core/download/mod.rs), the admission loop (bin/flowd.rs) and   *)
(* the endpoint's two store-writing methods (core/dbus/mod.rs).            *)
(*                                                                         *)
(* A transfer is a spawned task; every step below is the code between two  *)
(* awaits that touch shared state (the store, the three id-sets, the file  *)
(* system).  The runtime is multi-threaded, so tasks interleave at these   *)
(* steps.                                                                  *)
(***************************************************************************)
EXTENDS Integers, Sequences, FiniteSets, TLC

\* ------------------------------------------------------------------ bounds

\* Jobs NewDownload may create in a behaviour of Spec (ids 1..MaxJobs).
MaxJobs == 1
\* Transfer tasks alive at the same time in Spec.
MaxTasks == 1
\* Endpoint calls that write the store (confirm_download_data,
\* change_output_file_path) in a behaviour.
MaxCalls == 1
\* Chunks a scratch file may hold (each chunk is one unit of length).
MaxLen == 2
\* Output files the file system may hold.
MaxFiles == 2
\* The configured cap (Config.max_sim_downloads) in Spec.
SpecCap == 1
\* SpecAdmission: the jobs in the store, the task slots, the cap, the ticks.
\* SpecControl: the jobs a previous run left in the store.
CtlJobs == 2
AdmJobs == 6
AdmTasks == 6
AdmCap == 3
MaxTicks == 2
\* the bus when it is followed: the events it keeps (32 in flowd.rs), and the
\* events sent in one run
BusCap == 2
MaxEvents == 7
MaxSends == 2
\* the transfer tasks of the repeated dispatch
DupTasks == 2
\* the pending jobs of the admission under fair scheduling
FairJobs == 2
\* the store of the sorted listing: its rows and the values of date_added
SortJobs == 3
SortDates == 2

\* --------------------------------------------------------------- the model

VARIABLES
    db,                 \* the downloads table: id -> row
    nextId,             \* the next rowid the store assigns
    scratch,            \* temp_file of each created job: Absent or its length
    files,              \* output paths that exist on disk
    downloading,        \* Downloader.downloading
    pause_requests,     \* Downloader.pause_requests
    cancel_requests,    \* Downloader.cancel_requests
    tasks,              \* spawned transfer tasks: slot -> task
    endpoint,           \* an endpoint store write between its read and its write
    updates,            \* id -> status of the last DownloadUpdate published for it
    max_sim_downloads,  \* Config.max_sim_downloads
    ticks,              \* admission ticks counted so far (observer)
    probe,              \* one call of a function of db.rs or utils.rs: its
                        \* arguments, then its result
    bus                 \* the broadcast channel: the events sent, the position
                        \* of its two receivers, the signals the endpoint emitted

\* the engine's state
engine == << db, nextId, scratch, files, downloading, pause_requests,
             cancel_requests, tasks, endpoint, updates, max_sim_downloads, ticks,
             bus >>

vars == << db, nextId, scratch, files, downloading, pause_requests,
           cancel_requests, tasks, endpoint, updates, max_sim_downloads, ticks,
           probe, bus >>

\* DownloadStatus
Statuses == { "Pending", "Starting", "InProgress", "Paused", "Canceled",
              "Completed", "ServerError", "ClientError", "UnknownError" }

\* A scratch file that does not exist.
Absent == -1

\* Option<String>::None of a path field.
NoPath == [dir |-> "", name |-> << >>]

\* Config.default_directory and a directory that does not exist on disk.
default_directory == "downloads"
MissingDir == "missing"
ExistingDirs == { default_directory, "docs" }

\* Config.categories: name -> {extensions, directory}
categories == [documents |-> [extensions |-> { <<"pdf">> }, directory |-> "docs"]]

\* File names the server's headers and URL may yield (FileInfo.file_name).
FileNames == { <<"a", ".", "txt">>, <<"download">> }

\* Paths a client passes to change_output_file_path.
UserPaths == { [dir |-> default_directory, name |-> <<"b", ".", "txt">>],
               [dir |-> MissingDir, name |-> <<"b", ".", "txt">>] }

\* Download::is_idle
\* a reading of is_idle that takes every job without a transfer for idle
is_idle_or_completed(download) ==
    download.status \in { "Paused", "Canceled", "ClientError", "ServerError",
                          "UnknownError", "Completed" }

is_idle(download) ==
    download.status \in { "Paused", "Canceled", "ClientError", "ServerError",
                          "UnknownError" }

\* a fresh job that ignores the confirm flag of the event
get_download_unconfirmed(confirm) ==
    [ status |-> "Pending",
      data_confirmed |-> FALSE,
      detected_output_file |-> NoPath,
      output_file |-> NoPath,
      resumable |-> FALSE,
      date_completed |-> FALSE ]

\* Download::get_download_from_url, with data_confirmed as new_download sets it
get_download_from_url(confirm) ==
    [ status |-> "Pending",
      data_confirmed |-> confirm,
      detected_output_file |-> NoPath,
      output_file |-> NoPath,
      resumable |-> FALSE,
      date_completed |-> FALSE ]

\* ------------------------------------------------------------------ store

\* db::get_download_by_id succeeds
Found(id) == id \in DOMAIN db

\* db::change_download_status: UPDATE ... WHERE id (no row, no change)
change_download_status(store, id, status) ==
    IF id \in DOMAIN store
    THEN [store EXCEPT ![id].status = status]
    ELSE store

\* the text "NULL" where a path is expected
NullPath == [dir |-> "", name |-> << "NULL" >>]

\* db::new_download and db::update_download, an optional path as the column
\* holds it: .as_deref().or(Some("NULL")).unwrap()
option_to_string(path) == IF path = NoPath THEN NullPath ELSE path

\* db::string_to_option
string_to_option(string) == IF string = NullPath THEN NoPath ELSE string

\* DownloadStatus::get_string
get_string(status) ==
    CASE status = "Pending" -> "pending"
      [] status = "Starting" -> "starting"
      [] status = "InProgress" -> "in_progress"
      [] status = "Paused" -> "paused"
      [] status = "Canceled" -> "canceled"
      [] status = "Completed" -> "completed"
      [] status = "ServerError" -> "server_error"
      [] status = "ClientError" -> "client_error"
      [] status = "UnknownError" -> "unknown_error"

\* the outcome of a call whose thread panics
Panic == "panic"

\* DownloadStatus::from_string: the status of a known tag; any other text
\* reaches the panic! of the last arm
from_string(value) ==
    CASE value = "pending" -> "Pending"
      [] value = "starting" -> "Starting"
      [] value = "in_progress" -> "InProgress"
      [] value = "paused" -> "Paused"
      [] value = "canceled" -> "Canceled"
      [] value = "completed" -> "Completed"
      [] value = "server_error" -> "ServerError"
      [] value = "client_error" -> "ClientError"
      [] value = "unknown_error" -> "UnknownError"
      [] OTHER -> Panic

\* the column values db::new_download and db::update_download bind for a job
RowWritten(download) ==
    [ status |-> get_string(download.status),
      data_confirmed |-> IF download.data_confirmed THEN "true" ELSE "false",
      detected_output_file |-> option_to_string(download.detected_output_file),
      output_file |-> option_to_string(download.output_file),
      resumable |-> IF download.resumable THEN "true" ELSE "false",
      date_completed |-> IF download.date_completed THEN "timestamp" ELSE "NULL" ]

\* db::get_downloads_from_query: the job built from a row
RowRead(row) ==
    [ status |-> from_string(row.status),
      data_confirmed |-> row.data_confirmed = "true",
      detected_output_file |-> string_to_option(row.detected_output_file),
      output_file |-> string_to_option(row.output_file),
      resumable |-> row.resumable = "true",
      date_completed |-> row.date_completed # "NULL" ]

\* db::new_download: the table after the insert under rowid id.  The table is
\* kept as get_download_by_id reads it: db[id] is the job built from row id.
db_new_download(store, id, download) ==
    store @@ (id :> RowRead(RowWritten(download)))

\* db::update_download: every column of the row is overwritten
update_download(store, id, download) ==
    IF id \in DOMAIN store
    THEN [store EXCEPT ![id] = RowRead(RowWritten(download))]
    ELSE store

\* db::delete_download
delete_download(store, id) == [i \in DOMAIN store \ {id} |-> store[i]]

\* db::get_in_progress_downloads
get_in_progress_downloads == { i \in DOMAIN db : db[i].status = "InProgress" }

\* db::get_pending_downloads
get_pending_downloads == { i \in DOMAIN db : db[i].status = "Pending" }

\* utils::empty_temp_file: open(write, truncate) without create
empty_temp_file(fs, id) ==
    IF fs[id] = Absent THEN fs ELSE [fs EXCEPT ![id] = 0]

\* the k-th smallest element of a set of integers
Nth(S, k) == CHOOSE x \in S : Cardinality({ y \in S : y < x }) = k - 1


\* ------------------------------------------------------------- file names
\* A file name is a sequence of tokens: words, ".", " (", a number, ")".

\* str::ends_with
EndsWith(s, suffix) ==
    /\ Len(s) >= Len(suffix)
    /\ SubSeq(s, Len(s) - Len(suffix) + 1, Len(s)) = suffix

\* the tokens a decimal number may be
NumberTokens == { ToString(n) : n \in 0..(MaxFiles + 9) }

\* positions of "." in a name
Dots(name) == { k \in 1..Len(name) : name[k] = "." }

LastDot(name) == CHOOSE k \in Dots(name) : \A j \in Dots(name) : j <= k

\* Path::extension is None: no ".", or the only "." leads the name
NoExtension(name) == Dots(name) = {} \/ Dots(name) = {1}

\* Path::join: a file name that starts at the root replaces the directory
PathJoin(dir, file_name) ==
    IF file_name # << >> /\ file_name[1] = "/"
    THEN [dir |-> "/", name |-> Tail(file_name)]
    ELSE [dir |-> dir, name |-> file_name]

\* the categories of a category map that have an extension the name ends with
MatchingCategories(file_name, category_map) ==
    { c \in DOMAIN category_map :
        \E e \in category_map[c].extensions : EndsWith(file_name, e) }

\* utils::get_output_file_path: the paths it may return for a file name under a
\* category map (the map is a HashMap, iterated in any order)
output_file_paths(file_name, category_map) ==
    LET file_extension_empty == file_name = << >> \/ file_name[Len(file_name)] = "."
        matching == MatchingCategories(file_name, category_map)
        file_directory == IF ~file_extension_empty /\ matching # {}
                          THEN { category_map[c].directory : c \in matching }
                          ELSE { "" }
        dirs == { IF d = "" THEN default_directory ELSE d : d \in file_directory }
    IN  { PathJoin(d, file_name) : d \in dirs }

\* utils::get_output_file_path under the configured categories
get_output_file_path(file_name) == output_file_paths(file_name, categories)

\* ---- utils::get_file_info_from_headers
\* A header value and a URL path segment are sequences of pieces; the markers
\* filename=" and filename= are one piece each, and so is a closing quote.

QuotedMarker == "filename=\""
PlainMarker == "filename="
Quote == "\""

\* str::find of a piece: its first position, 0 when there is none
Find(s, piece) ==
    LET at == { k \in 1..Len(s) : s[k] = piece }
    IN  IF at = {} THEN 0 ELSE CHOOSE k \in at : \A j \in at : k <= j

\* a header that the response does not carry
NoHeader == << "(none)" >>

\* file_name_from_header: the names it yields (none: the empty set)
file_name_from_header(content_disposition) ==
    LET i == IF Find(content_disposition, QuotedMarker) # 0
             THEN Find(content_disposition, QuotedMarker) + 1
             ELSE IF Find(content_disposition, PlainMarker) # 0
                  THEN Find(content_disposition, PlainMarker) + 1
                  ELSE 0
    IN  IF content_disposition = NoHeader \/ i = 0
        THEN {}
        ELSE { SubSeq(content_disposition, i, Len(content_disposition) - 1) }

\* mime_guess::get_mime_extensions_str: the extensions known for a content type
MimeExtensions(content_type) ==
    CASE content_type = << "text/html" >> -> << "htm", "html" >>
      [] content_type = << "application/pdf" >> -> << "pdf" >>
      [] OTHER -> << >>

\* ct.split(";")[0]
content_type_of(header) ==
    IF Find(header, ";") = 0 THEN header ELSE SubSeq(header, 1, Find(header, ";") - 1)

\* ct_extension: the first known extension, or the empty string
ct_extension(header) ==
    IF header = NoHeader \/ MimeExtensions(content_type_of(header)) = << >>
    THEN << >>
    ELSE << MimeExtensions(content_type_of(header))[1] >>

\* urlencoding::decode, piece by piece
decode(s) == [k \in 1..Len(s) |-> IF s[k] = "%20" THEN " " ELSE s[k]]

\* the last path segment of the URL, or "download" when it is empty
last_url_segment(url) ==
    IF url[Len(url)] = << >> THEN << "download" >> ELSE url[Len(url)]

\* utils::get_file_info_from_headers: the file name
get_file_info_from_headers(url, headers) ==
    LET from_header == file_name_from_header(headers.content_disposition)
        extension == ct_extension(headers.content_type)
        segment == last_url_segment(url)
        file_name == IF from_header = {}
                     THEN IF EndsWith(segment, extension)
                          THEN segment
                          ELSE segment \o << "." >> \o extension
                     ELSE CHOOSE name \in from_header : TRUE
    IN  decode(file_name)

\* utils::get_conflict_free_file_path, special_extensions
special_extensions ==
    << <<".", "tar", ".", "gz">>, <<".", "tar", ".", "xz">>,
       <<".", "tar", ".", "bz2">>, <<".", "tar", ".", "lz">>,
       <<".", "tar", ".", "lzma">>, <<".", "tar", ".", "lzo">>,
       <<".", "tar", ".", "lz4">>, <<".", "tar", ".", "Z">> >>

\* the first special extension the name ends with (Iterator::any stops there)
SpecialIndex(name) ==
    LET hits == { k \in 1..Len(special_extensions) :
                    EndsWith(name, special_extensions[k]) }
    IN  IF hits = {} THEN 0 ELSE CHOOSE k \in hits : \A j \in hits : k <= j

\* str::split(pattern)[0]: the part before the first occurrence of pattern
BeforeFirst(s, pattern) ==
    LET at == { k \in 1..(Len(s) - Len(pattern) + 1) :
                  SubSeq(s, k, k + Len(pattern) - 1) = pattern }
        first == CHOOSE k \in at : \A j \in at : k <= j
    IN  IF at = {} THEN s ELSE SubSeq(s, 1, first - 1)

\* file_path_split before the regex: << stem, extension >>
FilePathSplit(name) ==
    IF SpecialIndex(name) # 0
    THEN LET ext == special_extensions[SpecialIndex(name)]
         IN  << BeforeFirst(name, ext), Tail(ext) >>
    ELSE << SubSeq(name, 1, LastDot(name) - 1),
            SubSeq(name, LastDot(name) + 1, Len(name)) >>

\* Regex " \(\d+\)$" matches the stem
EndsWithNumber(stem) ==
    /\ Len(stem) >= 3
    /\ stem[Len(stem) - 2] = " ("
    /\ stem[Len(stem) - 1] \in NumberTokens
    /\ stem[Len(stem)] = ")"

\* the stem with a trailing " (N)" cut off
StripNumber(stem) ==
    IF EndsWithNumber(stem) THEN SubSeq(stem, 1, Len(stem) - 3) ELSE stem

\* get_conflict_free_file_path panics: file_stem() or extension() is None
ConflictPanics(path) ==
    SpecialIndex(path.name) = 0 /\ (path.name = << >> \/ NoExtension(path.name))

\* utils::get_conflict_free_file_path, with the paths that exist
get_conflict_free_file_path(path, existing) ==
    LET split == FilePathSplit(path.name)
        stem == StripNumber(split[1])
        ext == split[2]
        plain == [dir |-> path.dir, name |-> stem \o <<".">> \o ext]
        numbered(i) == [dir |-> path.dir,
                        name |-> stem \o <<" (", ToString(i), ")", ".">> \o ext]
        free == { i \in 1..(Cardinality(existing) + 1) : numbered(i) \notin existing }
    IN  IF plain \notin existing
        THEN plain
        ELSE numbered(CHOOSE i \in free : \A j \in free : i <= j)

\* Path::parent().exists()
ParentExists(path) == path.dir \in ExistingDirs

\* ------------------------------------------------------------------ tasks

NoJob == [ status |-> "Pending", data_confirmed |-> FALSE,
           detected_output_file |-> NoPath, output_file |-> NoPath,
           resumable |-> FALSE, date_completed |-> FALSE ]

\* A free task slot.
IdleTask == [ pc |-> "idle", id |-> 0, download |-> NoJob, start_byte |-> Absent,
              file_name |-> << >> ]

\* tokio::spawn(controller.download(id))
Spawned(id) == [IdleTask EXCEPT !.pc = "spawned", !.id = id]

FreeSlots == { t \in DOMAIN tasks : tasks[t].pc = "idle" }

\* endpoint: the call in progress (op "none": no call), the calls made so far
\* and the ids for which confirm_download_data has returned
NoCall == [ op |-> "none", id |-> 0, row |-> NoJob, calls |-> 0, confirmed |-> {} ]

TypeOK ==
    /\ nextId \in 1..(MaxJobs + 7)
    /\ DOMAIN db \subseteq 1..(nextId - 1)
    /\ \A i \in DOMAIN db : db[i].status \in Statuses
    /\ downloading \subseteq 1..(nextId - 1)
    /\ pause_requests \subseteq 1..(nextId - 1)
    /\ cancel_requests \subseteq 1..(nextId - 1)
    /\ \A t \in DOMAIN tasks : tasks[t].pc = "idle" => tasks[t] = IdleTask

\* no function call is under observation
NoProbe == [ op |-> "none" ]

\* ------------------------------------------------- the bus (flowd.rs 18)
\* broadcast::channel: sent is every event sent so far, of which the channel
\* keeps the last `capacity`; each receiver reads at its own position.  With
\* capacity 0 the channel is not followed: a control event is handled as it is
\* sent and the status events are kept in `updates` only.

\* a receiver after subscribe(), in its loop
NewReceiver == [ next |-> 1, running |-> TRUE ]

NoBus == [ capacity |-> 0, sent |-> << >>, control |-> NewReceiver,
           relay |-> NewReceiver, signals |-> << >> ]

\* DownloadEvent
NewDownloadEvent(confirm) == [ type |-> "NewDownload", confirm |-> confirm ]
ControlEvent(type, id) == [ type |-> type, id |-> id ]
DownloadUpdate(id, status) == [ type |-> "DownloadUpdate", id |-> id, status |-> status ]
DownloadProgress(id, progress) ==
    [ type |-> "DownloadProgress", id |-> id, progress |-> progress ]

\* Sender::send
Publish(b, event) ==
    IF b.capacity = 0 THEN b ELSE [b EXCEPT !.sent = Append(@, event)]

\* the log has room for n more events
Room(n) == bus.capacity = 0 \/ Len(bus.sent) + n <= MaxEvents

\* Receiver::recv would return Err(Lagged): the event at the receiver's position
\* has been overwritten
Lagged(receiver) == receiver.next < Len(bus.sent) - bus.capacity + 1

\* Receiver::recv returns Ok(event) to the receiver
Receives(receiver, event) ==
    /\ receiver.running
    /\ receiver.next <= Len(bus.sent)
    /\ ~Lagged(receiver)
    /\ bus.sent[receiver.next] = event

\* listen_to_dbus_events: the control loop has received the event
Delivered(event) == bus.capacity = 0 \/ Receives(bus.control, event)

\* the bus after the control loop took its next event
Received(b) ==
    IF b.capacity = 0 THEN b ELSE [b EXCEPT !.control.next = @ + 1]

\* the engine after construction, with an empty store
InitEngine ==
    /\ db = << >>
    /\ nextId = 1
    /\ scratch = << >>
    /\ files = {}
    /\ downloading = {}
    /\ pause_requests = {}
    /\ cancel_requests = {}
    /\ tasks = [t \in 1..MaxTasks |-> IdleTask]
    /\ endpoint = NoCall
    /\ updates = << >>
    /\ max_sim_downloads = SpecCap
    /\ ticks = 0
    /\ bus = NoBus

Init == probe = NoProbe /\ InitEngine

\* ------------------------------------------------- the executor control loop

\* Downloader::new_download (handle_event, NewDownload)
new_download(confirm) ==
    /\ Delivered(NewDownloadEvent(confirm))
    /\ bus' = Received(bus)
    /\ db' = db_new_download(db, nextId, get_download_from_url(confirm))
    /\ scratch' = scratch @@ (nextId :> Absent)
    /\ updates' = updates @@ (nextId :> "none")
    /\ nextId' = nextId + 1
    /\ UNCHANGED << files, downloading, pause_requests, cancel_requests, tasks,
                    endpoint, max_sim_downloads, ticks, probe >>

\* a Pause that records the request whether or not the job is being transferred
PauseAlwaysRequests(id) ==
    /\ Delivered(ControlEvent("PauseDownload", id))
    /\ bus' = Received(bus)
    /\ pause_requests' = pause_requests \cup {id}
    /\ UNCHANGED << db, nextId, scratch, files, downloading, cancel_requests,
                    tasks, endpoint, updates, max_sim_downloads, ticks, probe >>

\* handle_event, PauseDownload(id)
PauseDownload(id) ==
    /\ Delivered(ControlEvent("PauseDownload", id))
    /\ bus' = Received(bus)
    /\ pause_requests' = IF id \in downloading
                         THEN pause_requests \cup {id}
                         ELSE pause_requests
    /\ UNCHANGED << db, nextId, scratch, files, downloading, cancel_requests,
                    tasks, endpoint, updates, max_sim_downloads, ticks, probe >>

\* a Resume that requeues every idle job, as Restart does
ResumeAnyIdle(id) ==
    /\ Delivered(ControlEvent("ResumeDownload", id))
    /\ bus' = Received(bus)
    /\ db' = IF Found(id) /\ is_idle(db[id])
             THEN change_download_status(db, id, "Pending")
             ELSE db
    /\ UNCHANGED << nextId, scratch, files, downloading, pause_requests,
                    cancel_requests, tasks, endpoint, updates,
                    max_sim_downloads, ticks, probe >>

\* handle_event, ResumeDownload(id)
ResumeDownload(id) ==
    /\ Delivered(ControlEvent("ResumeDownload", id))
    /\ bus' = Received(bus)
    /\ db' = IF Found(id) /\ db[id].status = "Paused"
             THEN change_download_status(db, id, "Pending")
             ELSE db
    /\ UNCHANGED << nextId, scratch, files, downloading, pause_requests,
                    cancel_requests, tasks, endpoint, updates,
                    max_sim_downloads, ticks, probe >>

\* a Restart that requeues an idle job with the bytes it has
RestartKeepsScratch(id) ==
    /\ Delivered(ControlEvent("RestartDownload", id))
    /\ bus' = Received(bus)
    /\ db' = IF Found(id) /\ is_idle(db[id])
             THEN change_download_status(db, id, "Pending")
             ELSE db
    /\ UNCHANGED << nextId, scratch, files, downloading, pause_requests,
                    cancel_requests, tasks, endpoint, updates,
                    max_sim_downloads, ticks, probe >>

\* handle_event, RestartDownload(id)
RestartDownload(id) ==
    /\ Delivered(ControlEvent("RestartDownload", id))
    /\ bus' = Received(bus)
    /\ IF Found(id) /\ is_idle(db[id])
       THEN /\ scratch' = empty_temp_file(scratch, id)
            /\ db' = change_download_status(db, id, "Pending")
       ELSE UNCHANGED << db, scratch >>
    /\ UNCHANGED << nextId, files, downloading, pause_requests, cancel_requests,
                    tasks, endpoint, updates, max_sim_downloads, ticks, probe >>

\* Downloader::cancel_download: the store, the bus, the scratch file and the
\* request set after it ran for job id
cancel_download_db(id) == change_download_status(db, id, "Canceled")
cancel_download_updates(id) == [updates EXCEPT ![id] = "Canceled"]
cancel_download_bus(b, id) == Publish(b, DownloadUpdate(id, "Canceled"))
\* a cancel that leaves the scratch file as it is
cancel_download_keeps_scratch(id) == scratch
cancel_download_scratch(id) == empty_temp_file(scratch, id)
cancel_download_requests(id) == cancel_requests \ {id}

\* handle_event, CancelDownload(id)
CancelDownload(id) ==
    /\ Delivered(ControlEvent("CancelDownload", id))
    /\ IF id \in downloading
       THEN /\ cancel_requests' = cancel_requests \cup {id}
            /\ bus' = Received(bus)
            /\ UNCHANGED << db, scratch, updates >>
       ELSE IF Found(id)
            THEN /\ Room(1)
                 /\ bus' = cancel_download_bus(Received(bus), id)
                 /\ db' = cancel_download_db(id)
                 /\ updates' = cancel_download_updates(id)
                 /\ scratch' = cancel_download_scratch(id)
                 /\ cancel_requests' = cancel_download_requests(id)
            ELSE /\ bus' = Received(bus)
                 /\ UNCHANGED << db, scratch, updates, cancel_requests >>
    /\ UNCHANGED << nextId, files, downloading, pause_requests, tasks, endpoint,
                    max_sim_downloads, ticks, probe >>

\* handle_event, DeleteDownload(id)
DeleteDownload(id) ==
    /\ Delivered(ControlEvent("DeleteDownload", id))
    /\ bus' = Received(bus)
    /\ db' = IF Found(id) /\ is_idle(db[id]) THEN delete_download(db, id) ELSE db
    /\ UNCHANGED << nextId, scratch, files, downloading, pause_requests,
                    cancel_requests, tasks, endpoint, updates,
                    max_sim_downloads, ticks, probe >>

\* ------------------------------------------------------ admission (flowd.rs)

\* db::get_pending_downloads as the query returns it, in rowid order
PendingList ==
    [k \in 1..Cardinality(get_pending_downloads) |-> Nth(get_pending_downloads, k)]

\* pending_downloads_checker, lines 75-85: the jobs the loop spawns a transfer
\* for, given the pending list, the in-progress count and the cap
\* the loop with the cap test off by one (> for >=)
RECURSIVE DispatchLoopPastCap(_, _, _)
DispatchLoopPastCap(downloads, in_progress_downloads_count, max_downloads) ==
    IF downloads = << >> \/ in_progress_downloads_count > max_downloads
    THEN << >>
    ELSE << Head(downloads) >>
           \o DispatchLoopPastCap(Tail(downloads), in_progress_downloads_count + 1,
                                  max_downloads)

RECURSIVE DispatchLoop(_, _, _)
DispatchLoop(downloads, in_progress_downloads_count, max_downloads) ==
    IF downloads = << >> \/ in_progress_downloads_count >= max_downloads
    THEN << >>
    ELSE << Head(downloads) >>
           \o DispatchLoop(Tail(downloads), in_progress_downloads_count + 1,
                           max_downloads)

\* pending_downloads_checker: one pass; each spawned task takes a free slot
pending_downloads_checker ==
    LET spawn == DispatchLoop(PendingList, Cardinality(get_in_progress_downloads),
                              max_sim_downloads)
        n == Len(spawn)
    IN  /\ Cardinality(FreeSlots) >= n
        /\ tasks' = [t \in DOMAIN tasks |->
                       IF \E k \in 1..n : t = Nth(FreeSlots, k)
                       THEN Spawned(spawn[CHOOSE k \in 1..n : t = Nth(FreeSlots, k)])
                       ELSE tasks[t]]
        /\ UNCHANGED << db, nextId, scratch, files, downloading, pause_requests,
                        cancel_requests, endpoint, updates, max_sim_downloads,
                        probe, bus >>

\* a tick of the admission loop
Tick == pending_downloads_checker /\ UNCHANGED ticks

\* ------------------------------------------- the transfer (Downloader::download)

\* the task in slot t moves to pc with its local state changed to task
Step(t, task) == tasks' = [tasks EXCEPT ![t] = task]

\* the task in slot t ends (it returns or panics)
End(t) == tasks' = [tasks EXCEPT ![t] = IdleTask]

\* download, lines 289-298: the job is read from the store
DownloadStart(t) ==
    /\ tasks[t].pc = "spawned"
    /\ IF Found(tasks[t].id)
       THEN Step(t, [tasks[t] EXCEPT !.pc = "prepare", !.download = db[tasks[t].id]])
       ELSE End(t)
    /\ UNCHANGED << db, nextId, scratch, files, downloading, pause_requests,
                    cancel_requests, endpoint, updates, max_sim_downloads, ticks, probe, bus >>

\* Downloader::prepare_download.  The scratch file is opened with read(true)
\* only (lines 506-510), so set_len(0) on that handle (line 522) fails, as a
\* truncate of a handle not open for writing does, and its unwrap panics: the
\* task ends with the file as it was and the id in downloading.
prepare_download(t) ==
    LET id == tasks[t].id
        downloaded_size == scratch[id]
    IN  /\ tasks[t].pc = "prepare"
        /\ downloading' = downloading \cup {id}
        /\ IF downloaded_size > 0 /\ ~tasks[t].download.resumable
           THEN End(t)
           ELSE Step(t, [tasks[t] EXCEPT !.pc = "starting",
                                        !.start_byte = IF downloaded_size > 0
                                                       THEN downloaded_size
                                                       ELSE @])
        /\ UNCHANGED << db, nextId, scratch, files, pause_requests,
                        cancel_requests, endpoint, updates, max_sim_downloads,
                        ticks, probe, bus >>

\* the status is written to the store and no event is sent
StatusWrittenUnpublished(id, status) ==
    /\ db' = change_download_status(db, id, status)
    /\ updates' = [updates EXCEPT ![id] = status]
    /\ bus' = bus

\* Downloader::update_download_status_and_notify: the store and the bus after it
StatusWritten(id, status) ==
    /\ Room(1)
    /\ db' = change_download_status(db, id, status)
    /\ updates' = [updates EXCEPT ![id] = status]
    /\ bus' = Publish(bus, DownloadUpdate(id, status))

\* Downloader::update_download_in_db_and_notify
RecordWritten(id, download) ==
    /\ Room(1)
    /\ db' = update_download(db, id, download)
    /\ updates' = [updates EXCEPT ![id] = download.status]
    /\ bus' = Publish(bus, DownloadUpdate(id, download.status))

\* Downloader::update_download_in_db_and_notify, twice in a row
RecordWrittenTwice(id, download) ==
    /\ Room(2)
    /\ db' = update_download(db, id, download)
    /\ updates' = [updates EXCEPT ![id] = download.status]
    /\ bus' = Publish(Publish(bus, DownloadUpdate(id, download.status)),
                      DownloadUpdate(id, download.status))

\* download, lines 304-309: status Starting
SetStarting(t) ==
    /\ tasks[t].pc = "starting"
    /\ StatusWritten(tasks[t].id, "Starting")
    /\ Step(t, [tasks[t] EXCEPT !.pc = "client", !.download.status = "Starting"])
    /\ UNCHANGED << nextId, scratch, files, downloading, pause_requests,
                    cancel_requests, endpoint, max_sim_downloads, ticks, probe >>

\* download, lines 311-323: the client is built, status InProgress
SetInProgress(t) ==
    /\ tasks[t].pc = "client"
    /\ StatusWritten(tasks[t].id, "InProgress")
    /\ Step(t, [tasks[t] EXCEPT !.pc = "request", !.download.status = "InProgress",
                                !.start_byte = Absent])
    /\ UNCHANGED << nextId, scratch, files, downloading, pause_requests,
                    cancel_requests, endpoint, max_sim_downloads, ticks, probe >>

\* download, lines 311-318: create_client fails
ClientBuildFails(t) ==
    /\ tasks[t].pc = "client"
    /\ StatusWritten(tasks[t].id, "ClientError")
    /\ End(t)
    /\ UNCHANGED << nextId, scratch, files, downloading, pause_requests,
                    cancel_requests, endpoint, max_sim_downloads, ticks, probe >>

\* download, lines 328-340: the response is not a success
ServerErrorResponse(t) ==
    /\ tasks[t].pc = "request"
    /\ StatusWritten(tasks[t].id, "ServerError")
    /\ Step(t, [tasks[t] EXCEPT !.pc = "remove", !.download.status = "ServerError"])
    /\ UNCHANGED << nextId, scratch, files, downloading, pause_requests,
                    cancel_requests, endpoint, max_sim_downloads, ticks, probe >>

\* download, lines 328-386: a success response with its headers; the detected
\* fields are saved and the scratch file is opened (append, create)
ReceiveHeaders(t, file_name, accept_ranges) ==
    LET id == tasks[t].id
        old == tasks[t].download
    IN  /\ tasks[t].pc = "request"
        /\ \E detected \in get_output_file_path(file_name) :
             LET download ==
                   [old EXCEPT !.detected_output_file =
                                  IF @ = NoPath THEN detected ELSE @,
                               !.resumable = IF accept_ranges THEN TRUE ELSE @]
             IN  /\ IF accept_ranges
                    THEN RecordWrittenTwice(id, download)
                    ELSE RecordWritten(id, download)
                 /\ Step(t, [tasks[t] EXCEPT !.pc = "stream",
                                             !.download = download,
                                             !.file_name = file_name])
        /\ scratch' = IF scratch[id] = Absent
                      THEN [scratch EXCEPT ![id] = 0]
                      ELSE scratch
        /\ UNCHANGED << nextId, files, downloading, pause_requests,
                        cancel_requests, endpoint, max_sim_downloads, ticks, probe >>

\* resp.chunk() yields a chunk: the body goes on
ChunkArrives(t) == tasks[t].pc = "stream" /\ scratch[tasks[t].id] < MaxLen

\* download, lines 390-401: the bus after the progress report of a chunk, which
\* is sent for the first chunk and when 250 ms have passed since the last one
ProgressSent(t, progress) ==
    IF progress
    THEN Publish(bus, DownloadProgress(tasks[t].id, scratch[tasks[t].id]))
    ELSE bus

\* download, lines 403-408: a chunk arrived and a cancel is requested
StreamCancel(t) ==
    LET id == tasks[t].id
    IN  /\ ChunkArrives(t)
        /\ id \in cancel_requests
        /\ Room(2)
        /\ \E progress \in BOOLEAN :
              bus' = cancel_download_bus(ProgressSent(t, progress), id)
        /\ db' = cancel_download_db(id)
        /\ updates' = cancel_download_updates(id)
        /\ scratch' = cancel_download_scratch(id)
        /\ cancel_requests' = cancel_download_requests(id)
        /\ Step(t, [tasks[t] EXCEPT !.pc = "remove", !.download.status = "Canceled"])
        /\ UNCHANGED << nextId, files, downloading, pause_requests, endpoint,
                        max_sim_downloads, ticks, probe >>

\* Downloader::pause_download, with the bus it publishes on
pause_download(t, b) ==
    LET id == tasks[t].id
    IN  /\ db' = change_download_status(db, id, "Paused")
        /\ updates' = [updates EXCEPT ![id] = "Paused"]
        /\ bus' = Publish(b, DownloadUpdate(id, "Paused"))
        /\ pause_requests' = pause_requests \ {id}
        /\ Step(t, [tasks[t] EXCEPT !.pc = "remove", !.download.status = "Paused"])

\* download, lines 409-414: a chunk arrived and a pause is requested
StreamPause(t) ==
    /\ ChunkArrives(t)
    /\ tasks[t].id \notin cancel_requests
    /\ tasks[t].id \in pause_requests
    /\ Room(2)
    /\ \E progress \in BOOLEAN : pause_download(t, ProgressSent(t, progress))
    /\ UNCHANGED << nextId, scratch, files, downloading, cancel_requests,
                    endpoint, max_sim_downloads, ticks, probe >>

\* download, lines 416-417: the chunk is appended to the scratch file
StreamWrite(t) ==
    LET id == tasks[t].id
    IN  /\ ChunkArrives(t)
        /\ id \notin cancel_requests
        /\ id \notin pause_requests
        /\ Room(1)
        /\ \E progress \in BOOLEAN : bus' = ProgressSent(t, progress)
        /\ scratch' = IF scratch[id] = Absent
                      THEN scratch
                      ELSE [scratch EXCEPT ![id] = @ + 1]
        /\ UNCHANGED << db, nextId, files, downloading, pause_requests,
                        cancel_requests, tasks, endpoint, updates,
                        max_sim_downloads, ticks, probe >>

\* download, line 389: resp.chunk() yields None, the body is complete
StreamEnd(t) ==
    /\ tasks[t].pc = "stream"
    /\ Step(t, [tasks[t] EXCEPT !.pc = "confirm"])
    /\ UNCHANGED << db, nextId, scratch, files, downloading, pause_requests,
                    cancel_requests, endpoint, updates, max_sim_downloads, ticks, probe, bus >>

\* Download::refresh_data_from_db
refresh_data_from_db(download, id) == IF Found(id) THEN db[id] ELSE download

\* a confirmation wait that refreshes once and goes on whatever it read
ConfirmWaitOnce(t) ==
    LET download == refresh_data_from_db(tasks[t].download, tasks[t].id)
    IN  /\ tasks[t].pc = "confirm"
        /\ Step(t, [tasks[t] EXCEPT !.download = download, !.pc = "resolve"])
        /\ UNCHANGED << db, nextId, scratch, files, downloading, pause_requests,
                        cancel_requests, endpoint, updates, max_sim_downloads,
                        ticks, probe, bus >>

\* download, lines 420-429: one refresh of the confirmation wait
ConfirmWait(t) ==
    LET download == refresh_data_from_db(tasks[t].download, tasks[t].id)
    IN  /\ tasks[t].pc = "confirm"
        /\ Step(t, [tasks[t] EXCEPT !.download = download,
                                    !.pc = IF download.data_confirmed
                                           THEN "resolve" ELSE "confirm"])
        /\ UNCHANGED << db, nextId, scratch, files, downloading, pause_requests,
                        cancel_requests, endpoint, updates, max_sim_downloads,
                        ticks, probe, bus >>

\* download, lines 431-439: the paths the transfer may take as its output
OutputCandidates(t) ==
    IF tasks[t].download.output_file # NoPath
    THEN { tasks[t].download.output_file }
    ELSE IF tasks[t].download.detected_output_file # NoPath
         THEN { tasks[t].download.detected_output_file }
         ELSE get_output_file_path(tasks[t].file_name)

\* download, lines 449-464: the output directory does not exist
OutputDirectoryMissing(t) ==
    /\ tasks[t].pc = "resolve"
    /\ \E candidate \in OutputCandidates(t) :
         /\ ~ConflictPanics(candidate)
         /\ ~ParentExists(get_conflict_free_file_path(candidate, files))
    /\ StatusWritten(tasks[t].id, "ClientError")
    /\ End(t)
    /\ UNCHANGED << nextId, scratch, files, downloading, pause_requests,
                    cancel_requests, endpoint, max_sim_downloads, ticks, probe >>

\* download, lines 441-484: the scratch file is renamed to the conflict-free
\* path, then output_file and date_completed are saved
MoveOutput(t) ==
    LET id == tasks[t].id
        old == tasks[t].download
    IN  /\ tasks[t].pc = "resolve"
        /\ Cardinality(files) < MaxFiles
        /\ scratch[id] # Absent
        /\ \E candidate \in OutputCandidates(t) :
             /\ ~ConflictPanics(candidate)
             /\ LET file_output == get_conflict_free_file_path(candidate, files)
                    changed ==
                       \/ old.output_file # NoPath /\ old.output_file # file_output
                       \/ old.output_file = NoPath
                            /\ old.detected_output_file # file_output
                    download ==
                       [old EXCEPT !.output_file = IF changed THEN file_output ELSE @,
                                   !.date_completed = TRUE]
                IN  /\ ParentExists(file_output)
                    /\ files' = files \cup {file_output}
                    /\ scratch' = [scratch EXCEPT ![id] = Absent]
                    /\ IF old.output_file = NoPath /\ old.detected_output_file = NoPath
                       THEN \* line 475 unwraps None: the task panics after the rename
                            /\ End(t)
                            /\ UNCHANGED << db, updates, bus >>
                       ELSE /\ IF changed
                               THEN RecordWrittenTwice(id, download)
                               ELSE RecordWritten(id, download)
                            /\ Step(t, [tasks[t] EXCEPT !.pc = "completed",
                                                        !.download = download])
        /\ UNCHANGED << nextId, downloading, pause_requests, cancel_requests,
                        endpoint, max_sim_downloads, ticks, probe >>

\* download, lines 486-489: status Completed
SetCompleted(t) ==
    /\ tasks[t].pc = "completed"
    /\ StatusWritten(tasks[t].id, "Completed")
    /\ Step(t, [tasks[t] EXCEPT !.pc = "remove", !.download.status = "Completed"])
    /\ UNCHANGED << nextId, scratch, files, downloading, pause_requests,
                    cancel_requests, endpoint, max_sim_downloads, ticks, probe >>

\* download, lines 338, 406, 412, 491: the id leaves downloading, the task returns
RemoveDownloading(t) ==
    /\ tasks[t].pc = "remove"
    /\ downloading' = downloading \ {tasks[t].id}
    /\ End(t)
    /\ UNCHANGED << db, nextId, scratch, files, pause_requests, cancel_requests,
                    endpoint, updates, max_sim_downloads, ticks, probe, bus >>

\* an unwrap of the transfer panics and ends the task where it stands: the
\* request fails (328), a chunk read or write fails (389, 416), the name has
\* no extension (utils.rs 209), the scratch file to rename is gone (467)
TaskPanics(t) ==
    /\ \/ tasks[t].pc \in { "request", "stream" }
       \/ /\ tasks[t].pc = "resolve"
          /\ \/ scratch[tasks[t].id] = Absent
             \/ \E candidate \in OutputCandidates(t) : ConflictPanics(candidate)
    /\ End(t)
    /\ UNCHANGED << db, nextId, scratch, files, downloading, pause_requests,
                    cancel_requests, endpoint, updates, max_sim_downloads, ticks, probe, bus >>

\* --------------------------------------------------- the endpoint (dbus, db)

\* db::confirm_download_data, up to its update_download
ConfirmRead(id) ==
    /\ endpoint.op = "none"
    /\ endpoint.calls < MaxCalls
    /\ Found(id)
    /\ endpoint' = [op |-> "confirm", id |-> id, calls |-> endpoint.calls + 1,
                    confirmed |-> endpoint.confirmed,
                    row |-> [db[id] EXCEPT !.data_confirmed = TRUE]]
    /\ UNCHANGED << db, nextId, scratch, files, downloading, pause_requests,
                    cancel_requests, tasks, updates, max_sim_downloads, ticks, probe, bus >>

\* db::change_download_output_file_path, up to its update_download
OutputPathRead(id, path) ==
    /\ endpoint.op = "none"
    /\ endpoint.calls < MaxCalls
    /\ Found(id)
    /\ endpoint' = [op |-> "output", id |-> id, calls |-> endpoint.calls + 1,
                    confirmed |-> endpoint.confirmed,
                    row |-> [db[id] EXCEPT !.output_file = path]]
    /\ UNCHANGED << db, nextId, scratch, files, downloading, pause_requests,
                    cancel_requests, tasks, updates, max_sim_downloads, ticks, probe, bus >>

\* the update_download that ends either endpoint method
EndpointWrite ==
    /\ endpoint.op # "none"
    /\ db' = update_download(db, endpoint.id, endpoint.row)
    /\ endpoint' = [NoCall EXCEPT !.calls = endpoint.calls,
                                  !.confirmed = IF endpoint.op = "confirm"
                                                THEN endpoint.confirmed \cup {endpoint.id}
                                                ELSE endpoint.confirmed]
    /\ UNCHANGED << nextId, scratch, files, downloading, pause_requests,
                    cancel_requests, tasks, updates, max_sim_downloads, ticks, probe, bus >>

\* ------------------------------------------------------------ specification

\* ids a client may name: those of the jobs, and one that was never assigned
Ids == 1..(MaxJobs + 1)

Next ==
    \/ \E confirm \in BOOLEAN : nextId <= MaxJobs /\ new_download(confirm)
    \/ \E id \in Ids : PauseDownload(id)
    \/ \E id \in Ids : ResumeDownload(id)
    \/ \E id \in Ids : RestartDownload(id)
    \/ \E id \in Ids : CancelDownload(id)
    \/ \E id \in Ids : DeleteDownload(id)
    \/ Tick
    \/ \E t \in DOMAIN tasks : DownloadStart(t)
    \/ \E t \in DOMAIN tasks : prepare_download(t)
    \/ \E t \in DOMAIN tasks : SetStarting(t)
    \/ \E t \in DOMAIN tasks : SetInProgress(t)
    \/ \E t \in DOMAIN tasks : ClientBuildFails(t)
    \/ \E t \in DOMAIN tasks : ServerErrorResponse(t)
    \/ \E t \in DOMAIN tasks, file_name \in FileNames, accept_ranges \in BOOLEAN :
          ReceiveHeaders(t, file_name, accept_ranges)
    \/ \E t \in DOMAIN tasks : StreamCancel(t)
    \/ \E t \in DOMAIN tasks : StreamPause(t)
    \/ \E t \in DOMAIN tasks : StreamWrite(t)
    \/ \E t \in DOMAIN tasks : StreamEnd(t)
    \/ \E t \in DOMAIN tasks : ConfirmWait(t)
    \/ \E t \in DOMAIN tasks : OutputDirectoryMissing(t)
    \/ \E t \in DOMAIN tasks : MoveOutput(t)
    \/ \E t \in DOMAIN tasks : SetCompleted(t)
    \/ \E t \in DOMAIN tasks : RemoveDownloading(t)
    \/ \E t \in DOMAIN tasks : TaskPanics(t)
    \/ \E id \in Ids : ConfirmRead(id)
    \/ \E id \in Ids, path \in UserPaths : OutputPathRead(id, path)
    \/ EndpointWrite

Spec == Init /\ [][Next]_vars

\* ---------------------------------------------- admission and transfer starts
\* The admission loop over a store of pending jobs (a store a previous run
\* left, or one filled by NewDownload events before the first tick), with the
\* transfers it spawns followed up to status InProgress.  Ticks are counted.

\* the sizes of the store the admission loop starts from: fewer jobs than the
\* cap admits, or more
AdmStores == { AdmCap - 1, AdmJobs }

InitAdmission ==
    /\ probe = NoProbe
    /\ \E n \in AdmStores :
          /\ db = [i \in 1..n |-> get_download_from_url(TRUE)]
          /\ nextId = n + 1
          /\ scratch = [i \in 1..n |-> Absent]
          /\ updates = [i \in 1..n |-> "none"]
    /\ files = {}
    /\ downloading = {}
    /\ pause_requests = {}
    /\ cancel_requests = {}
    /\ tasks = [t \in 1..AdmTasks |-> IdleTask]
    /\ endpoint = NoCall
    /\ max_sim_downloads = AdmCap
    /\ ticks = 0
    /\ bus = NoBus

\* a tick of the admission loop, counted
CountedTick ==
    /\ ticks < MaxTicks
    /\ pending_downloads_checker
    /\ ticks' = ticks + 1

NextAdmission ==
    \/ CountedTick
    \/ \E t \in DOMAIN tasks : DownloadStart(t)
    \/ \E t \in DOMAIN tasks : prepare_download(t)
    \/ \E t \in DOMAIN tasks : SetStarting(t)
    \/ \E t \in DOMAIN tasks : SetInProgress(t)

SpecAdmission == InitAdmission /\ [][NextAdmission]_vars

\* ------------------------------------------------------ the bus followed
\* The engine with the channel followed: the endpoint's methods send control
\* events, the control loop and the endpoint's relay receive at their own
\* pace, the transfer publishes on the same channel.

InitBus ==
    /\ probe = NoProbe
    /\ db = << >>
    /\ nextId = 1
    /\ scratch = << >>
    /\ files = {}
    /\ downloading = {}
    /\ pause_requests = {}
    /\ cancel_requests = {}
    /\ tasks = [t \in 1..MaxTasks |-> IdleTask]
    /\ endpoint = NoCall
    /\ updates = << >>
    /\ max_sim_downloads = SpecCap
    /\ ticks = 0
    /\ bus = [NoBus EXCEPT !.capacity = BusCap]

\* the control events the endpoint's methods send
ControlEvents ==
    { NewDownloadEvent(TRUE) }
      \cup { ControlEvent(type, id) :
                type \in { "PauseDownload", "ResumeDownload", "RestartDownload",
                           "CancelDownload", "DeleteDownload" },
                id \in 1..MaxJobs }

\* the status events, which the control loop passes over
StatusTypes == { "DownloadUpdate", "DownloadProgress", "DownloadError" }

\* the events the relay turns into a signal
SignalTypes == { "DownloadProgress", "DownloadUpdate", "DownloadDelete" }

\* the control events sent so far
Sends == { k \in 1..Len(bus.sent) : bus.sent[k].type \notin StatusTypes }

\* an endpoint method sends its control event
EndpointSends(event) ==
    /\ Room(1)
    /\ Cardinality(Sends) < MaxSends
    /\ event.type = "NewDownload" =>
          Cardinality({ k \in 1..Len(bus.sent) : bus.sent[k].type = "NewDownload" })
              < MaxJobs
    /\ bus' = Publish(bus, event)
    /\ UNCHANGED << db, nextId, scratch, files, downloading, pause_requests,
                    cancel_requests, tasks, endpoint, updates, max_sim_downloads,
                    ticks, probe >>

\* listen_to_dbus_events receives a status event: handle_event does nothing
ControlIgnores ==
    /\ \E k \in 1..Len(bus.sent) :
          /\ Receives(bus.control, bus.sent[k])
          /\ k = bus.control.next
          /\ bus.sent[k].type \in StatusTypes
    /\ bus' = Received(bus)
    /\ UNCHANGED << db, nextId, scratch, files, downloading, pause_requests,
                    cancel_requests, tasks, endpoint, updates, max_sim_downloads,
                    ticks, probe >>

\* the receiver after recv returned Err(Lagged): its position is the oldest
\* event kept, and its `while let Ok(..)` loop has ended
AfterLag(receiver) ==
    [ next |-> Len(bus.sent) - bus.capacity + 1, running |-> FALSE ]

\* listen_to_dbus_events: recv returns Err(Lagged)
ControlLags ==
    /\ bus.control.running
    /\ Lagged(bus.control)
    /\ bus' = [bus EXCEPT !.control = AfterLag(bus.control)]
    /\ UNCHANGED << db, nextId, scratch, files, downloading, pause_requests,
                    cancel_requests, tasks, endpoint, updates, max_sim_downloads,
                    ticks, probe >>

\* FlowListener::listen_to_events receives an event; FlowListener::handle_event
\* emits the signal of a status event and passes over any other event
RelayReceives ==
    /\ \E k \in 1..Len(bus.sent) :
          /\ Receives(bus.relay, bus.sent[k])
          /\ k = bus.relay.next
          /\ bus' = [bus EXCEPT !.relay.next = @ + 1,
                                !.signals = IF bus.sent[k].type \in SignalTypes
                                            THEN Append(@, bus.sent[k])
                                            ELSE @]
    /\ UNCHANGED << db, nextId, scratch, files, downloading, pause_requests,
                    cancel_requests, tasks, endpoint, updates, max_sim_downloads,
                    ticks, probe >>

\* FlowListener::listen_to_events: recv returns Err(Lagged)
RelayLags ==
    /\ bus.relay.running
    /\ Lagged(bus.relay)
    /\ bus' = [bus EXCEPT !.relay = AfterLag(bus.relay)]
    /\ UNCHANGED << db, nextId, scratch, files, downloading, pause_requests,
                    cancel_requests, tasks, endpoint, updates, max_sim_downloads,
                    ticks, probe >>

NextBus ==
    \/ \E event \in ControlEvents : EndpointSends(event)
    \/ new_download(TRUE)
    \/ \E id \in 1..MaxJobs : PauseDownload(id)
    \/ \E id \in 1..MaxJobs : ResumeDownload(id)
    \/ \E id \in 1..MaxJobs : RestartDownload(id)
    \/ \E id \in 1..MaxJobs : CancelDownload(id)
    \/ \E id \in 1..MaxJobs : DeleteDownload(id)
    \/ ControlIgnores
    \/ ControlLags
    \/ RelayReceives
    \/ RelayLags
    \/ Tick
    \/ \E t \in DOMAIN tasks : DownloadStart(t)
    \/ \E t \in DOMAIN tasks : prepare_download(t)
    \/ \E t \in DOMAIN tasks : SetStarting(t)
    \/ \E t \in DOMAIN tasks : SetInProgress(t)
    \/ \E t \in DOMAIN tasks : ClientBuildFails(t)
    \/ \E t \in DOMAIN tasks : ServerErrorResponse(t)
    \/ \E t \in DOMAIN tasks, file_name \in FileNames, accept_ranges \in BOOLEAN :
          ReceiveHeaders(t, file_name, accept_ranges)
    \/ \E t \in DOMAIN tasks : StreamCancel(t)
    \/ \E t \in DOMAIN tasks : StreamPause(t)
    \/ \E t \in DOMAIN tasks : StreamWrite(t)
    \/ \E t \in DOMAIN tasks : StreamEnd(t)
    \/ \E t \in DOMAIN tasks : ConfirmWait(t)
    \/ \E t \in DOMAIN tasks : MoveOutput(t)
    \/ \E t \in DOMAIN tasks : SetCompleted(t)
    \/ \E t \in DOMAIN tasks : RemoveDownloading(t)
    \/ \E t \in DOMAIN tasks : TaskPanics(t)

SpecBus == InitBus /\ [][NextBus]_vars

\* ------------------------------------------- admission, fairly scheduled
\* A store of confirmed Pending jobs, the admission loop and the transfers it
\* spawns, with no control events and no endpoint calls.  The loop ticks for
\* ever and every spawned task is scheduled until it returns or panics; what
\* the server answers and whether a call fails is not constrained.

InitFair ==
    /\ probe = NoProbe
    /\ db = [i \in 1..FairJobs |-> get_download_from_url(TRUE)]
    /\ nextId = FairJobs + 1
    /\ scratch = [i \in 1..FairJobs |-> Absent]
    /\ updates = [i \in 1..FairJobs |-> "none"]
    /\ files = {}
    /\ downloading = {}
    /\ pause_requests = {}
    /\ cancel_requests = {}
    /\ tasks = [t \in 1..DupTasks |-> IdleTask]
    /\ endpoint = NoCall
    /\ max_sim_downloads = SpecCap
    /\ ticks = 0
    /\ bus = NoBus

\* a step of the transfer task in slot t
TransferStep(t) ==
    \/ DownloadStart(t)
    \/ prepare_download(t)
    \/ SetStarting(t)
    \/ SetInProgress(t)
    \/ ClientBuildFails(t)
    \/ ServerErrorResponse(t)
    \/ \E file_name \in FileNames, accept_ranges \in BOOLEAN :
          ReceiveHeaders(t, file_name, accept_ranges)
    \/ StreamWrite(t)
    \/ StreamEnd(t)
    \/ ConfirmWait(t)
    \/ MoveOutput(t)
    \/ SetCompleted(t)
    \/ RemoveDownloading(t)
    \/ TaskPanics(t)

NextFair ==
    \/ Tick
    \/ \E t \in DOMAIN tasks : TransferStep(t)

\* the main loop runs a tick every 500 ms; tokio runs every spawned task
Fairness ==
    /\ WF_vars(Tick)
    /\ \A t \in 1..DupTasks : WF_vars(TransferStep(t))

SpecFair == InitFair /\ [][NextFair]_vars /\ Fairness

\* ---------------------------------------------------- repeated dispatch
\* One job and two task slots, with Pause and Resume as the only control
\* events and without endpoint calls (so the output directory is always a
\* detected one, which exists): a tick dispatches every job that is Pending,
\* also one that an earlier tick dispatched and whose transfer has not yet
\* written Starting, and one that was resumed while the transfer that paused
\* it has not yet returned.

InitRedispatch ==
    /\ probe = NoProbe
    /\ db = << >>
    /\ nextId = 1
    /\ scratch = << >>
    /\ files = {}
    /\ downloading = {}
    /\ pause_requests = {}
    /\ cancel_requests = {}
    /\ tasks = [t \in 1..DupTasks |-> IdleTask]
    /\ endpoint = NoCall
    /\ updates = << >>
    /\ max_sim_downloads = SpecCap
    /\ ticks = 0
    /\ bus = NoBus

NextRedispatch ==
    \/ nextId <= MaxJobs /\ new_download(TRUE)
    \/ \E id \in 1..MaxJobs : PauseDownload(id)
    \/ \E id \in 1..MaxJobs : ResumeDownload(id)
    \/ Tick
    \/ \E t \in DOMAIN tasks : DownloadStart(t)
    \/ \E t \in DOMAIN tasks : prepare_download(t)
    \/ \E t \in DOMAIN tasks : SetStarting(t)
    \/ \E t \in DOMAIN tasks : SetInProgress(t)
    \/ \E t \in DOMAIN tasks : ClientBuildFails(t)
    \/ \E t \in DOMAIN tasks : ServerErrorResponse(t)
    \/ \E t \in DOMAIN tasks, file_name \in FileNames, accept_ranges \in BOOLEAN :
          ReceiveHeaders(t, file_name, accept_ranges)
    \/ \E t \in DOMAIN tasks : StreamPause(t)
    \/ \E t \in DOMAIN tasks : StreamWrite(t)
    \/ \E t \in DOMAIN tasks : StreamEnd(t)
    \/ \E t \in DOMAIN tasks : ConfirmWait(t)
    \/ \E t \in DOMAIN tasks : MoveOutput(t)
    \/ \E t \in DOMAIN tasks : SetCompleted(t)
    \/ \E t \in DOMAIN tasks : RemoveDownloading(t)
    \/ \E t \in DOMAIN tasks : TaskPanics(t)

SpecRedispatch == InitRedispatch /\ [][NextRedispatch]_vars

\* ------------------------------------------- the control loop on a store
\* The executor's control loop started on the store a previous run left: jobs
\* in any status, with or without bytes in their scratch files; the id-sets
\* are empty and no transfer runs (so a Pause finds nothing to pause).

\* the stores a previous run may have left: ids 1..n, any status each
LeftStores ==
    UNION { [1..n -> { [get_download_from_url(TRUE) EXCEPT !.status = status] :
                          status \in Statuses }] : n \in 0..CtlJobs }

InitControl ==
    /\ probe = NoProbe
    /\ db \in LeftStores
    /\ nextId = Cardinality(DOMAIN db) + 1
    /\ scratch \in [DOMAIN db -> { Absent, 1 }]
    /\ files = {}
    /\ downloading = {}
    /\ pause_requests = {}
    /\ cancel_requests = {}
    /\ tasks = << >>
    /\ endpoint = NoCall
    /\ updates = [i \in DOMAIN db |-> "none"]
    /\ max_sim_downloads = SpecCap
    /\ ticks = 0
    /\ bus = NoBus

\* the ids control events name: those of the store and one beyond
ControlIds == 1..(CtlJobs + 2)

NextControl ==
    \/ \E confirm \in BOOLEAN : nextId <= CtlJobs + 1 /\ new_download(confirm)
    \/ \E id \in ControlIds : ResumeDownload(id)
    \/ \E id \in ControlIds : RestartDownload(id)
    \/ \E id \in ControlIds : CancelDownload(id)
    \/ \E id \in ControlIds : DeleteDownload(id)

SpecControl == InitControl /\ [][NextControl]_vars

\* ------------------------------------------------------ the store, db.rs
\* One job record is inserted with db::new_download and read back with
\* db::get_download_by_id.

\* the optional paths of a job record: none, a path, and the text "NULL"
StoredPaths == { NoPath, [dir |-> default_directory, name |-> << "a", ".", "txt" >>],
                 NullPath }

\* the job records handed to db::new_download
Downloads ==
    [ status : Statuses, data_confirmed : BOOLEAN,
      detected_output_file : StoredPaths, output_file : StoredPaths,
      resumable : BOOLEAN, date_completed : BOOLEAN ]

\* db::get_download_by_id, for an id in the table
get_download_by_id(store, id) == store[id]

\* the texts a status column can hold: the nine tags and a text that is none
\* of them
StatusTags == { get_string(status) : status \in Statuses } \cup { "archived" }

\* the rows of a table written by this or another program: the columns of a
\* pending job with any text in the status column
StoredRows ==
    { [RowWritten(download) EXCEPT !.status = tag] :
         download \in { d \in Downloads : d.status = "Pending" },
         tag \in StatusTags }

InitStore ==
    /\ InitEngine
    /\ probe \in [ op : { "record" }, download : Downloads ]
                   \cup [ op : { "row" }, row : StoredRows ]

\* db::new_download(&download), which returns the rowid
StoreInsert ==
    /\ probe.op = "record"
    /\ db' = db_new_download(db, nextId, probe.download)
    /\ nextId' = nextId + 1
    /\ probe' = [ op |-> "inserted", download |-> probe.download, id |-> nextId ]
    /\ UNCHANGED << scratch, files, downloading, pause_requests, cancel_requests,
                    tasks, endpoint, updates, max_sim_downloads, ticks, bus >>

\* db::get_download_by_id(id) on the returned id
StoreRead ==
    /\ probe.op = "inserted"
    /\ probe' = [ op |-> "read", download |-> probe.download,
                  result |-> get_download_by_id(db, probe.id) ]
    /\ UNCHANGED engine

\* db::get_downloads_from_query on a table that holds the row: the closure of
\* query_map builds the job, and a panic inside it unwinds through the caller
StoreReadRow ==
    /\ probe.op = "row"
    /\ probe' = [ op |-> "row_read", row |-> probe.row,
                  result |-> IF from_string(probe.row.status) = Panic
                             THEN [ outcome |-> Panic ]
                             ELSE [ outcome |-> "ok",
                                    download |-> RowRead(probe.row) ] ]
    /\ UNCHANGED engine

NextStore == StoreInsert \/ StoreRead \/ StoreReadRow

SpecStore == InitStore /\ [][NextStore]_vars

\* ------------------------------------------ the sorted listing, db.rs
\* db::get_sorted_downloads on a table drawn from a bounded set. A row holds
\* the status column as text and date_added as the integer it is read as.

\* the CASE of the ORDER BY clause with every status in the ELSE branch but
\* Completed
order_by_case_without_buckets(status) ==
    IF status = get_string("Completed") THEN 6 ELSE 5

\* the CASE expression of the ORDER BY clause, on the status column
order_by_case(status) ==
    CASE status = get_string("InProgress") -> 1
      [] status = get_string("Starting") -> 2
      [] status = get_string("Pending") -> 3
      [] status = get_string("Paused") -> 4
      [] status = get_string("Completed") -> 6
      [] OTHER -> 5

\* ORDER BY CASE ... END, date_added DESC: row a may come before row b
OrderedBefore(a, b) ==
    \/ order_by_case(a.status) < order_by_case(b.status)
    \/ /\ order_by_case(a.status) = order_by_case(b.status)
       /\ a.date_added >= b.date_added

\* the orders in which the rows of a table may be listed
RowOrders(table) ==
    { f \in [1..Cardinality(DOMAIN table) -> DOMAIN table] :
        \A i, j \in 1..Cardinality(DOMAIN table) : i # j => f[i] # f[j] }

\* db::get_sorted_downloads: the lists it may return (SQLite leaves the order of
\* rows with equal keys open)
get_sorted_downloads(table) ==
    { [k \in 1..Cardinality(DOMAIN table) |->
          [ id |-> f[k], status |-> from_string(table[f[k]].status),
            date_added |-> table[f[k]].date_added ]] :
      f \in { g \in RowOrders(table) :
                \A i, j \in 1..Cardinality(DOMAIN table) :
                    i < j => OrderedBefore(table[g[i]], table[g[j]]) } }

\* the tables the listing is taken of
SortTables ==
    UNION { [1..n -> [ status : { get_string(st) : st \in Statuses },
                       date_added : 1..SortDates ]] : n \in 0..SortJobs }

InitSorted ==
    /\ InitEngine
    /\ probe \in [ op : { "table" }, table : SortTables ]

\* db::get_sorted_downloads()
SortedRead ==
    /\ probe.op = "table"
    /\ \E list \in get_sorted_downloads(probe.table) :
          probe' = [ op |-> "sorted", table |-> probe.table, result |-> list ]
    /\ UNCHANGED engine

NextSorted == SortedRead

SpecSorted == InitSorted /\ [][NextSorted]_vars

\* ---------------------------------------------- the functions of utils.rs
\* One call of a function of utils.rs on arguments drawn from bounded sets.

\* the files of one directory that conflict resolution is tried on
ConflictNames ==
    { << "a", ".", "txt" >>,
      << "a", " (", "1", ")", ".", "txt" >>,
      << "a", " (", "2", ")", ".", "txt" >>,
      << "a", " (", "1", ")", " (", "1", ")", ".", "txt" >>,
      << "a", " (", "1", ")", " (", "2", ")", ".", "txt" >>,
      << "a", ".", "tar", ".", "gz" >>,
      << "a", " (", "1", ")", ".", "tar", ".", "gz" >> }

ConflictPaths == { [dir |-> default_directory, name |-> n] : n \in ConflictNames }

\* a candidate path that exists, and the paths that exist
ConflictCalls ==
    { call \in [ op : { "conflict" }, path : ConflictPaths,
                 existing : SUBSET ConflictPaths ] : call.path \in call.existing }

\* get_conflict_free_file_path(path)
ResolveConflict ==
    /\ probe.op = "conflict"
    /\ probe' = [ op |-> "resolved", path |-> probe.path, existing |-> probe.existing,
                  result |-> get_conflict_free_file_path(probe.path, probe.existing) ]
    /\ UNCHANGED engine

\* get_conflict_free_file_path on the path the first call returned
ResolveConflictAgain ==
    /\ probe.op = "resolved"
    /\ probe' = [ op |-> "resolved twice", path |-> probe.path,
                  existing |-> probe.existing, result |-> probe.result,
                  again |-> get_conflict_free_file_path(probe.result,
                                                        probe.existing) ]
    /\ UNCHANGED engine

\* the category maps that categorization is tried under
CategoryMaps ==
    { [documents |-> [extensions |-> { <<"pdf">> }, directory |-> "docs"],
       archives |-> [extensions |-> { }, directory |-> "archives"]],
      [documents |-> [extensions |-> { <<"pdf">>, <<"txt">> }, directory |-> "docs"],
       archives |-> [extensions |-> { <<"gz">> }, directory |-> "archives"]],
      [documents |-> [extensions |-> { <<"pdf">> }, directory |-> "docs"],
       archives |-> [extensions |-> { <<"gz">>, <<"pdf">> }, directory |-> "archives"]],
      [documents |-> [extensions |-> { }, directory |-> "docs"],
       archives |-> [extensions |-> { }, directory |-> "archives"]] }

\* the file names that categorization is tried on
CategoryNames ==
    { << "a", ".", "pdf" >>, << "a", ".", "txt" >>, << "a", ".", "tar", ".", "gz" >>,
      << "a", ".", "gz" >>, << "a", ".", "pdf", ".", "txt" >>, << "download" >>,
      << "pdf" >>, << "a", "." >>, << "/", "a", ".", "pdf" >>,
      << "/", "a", ".", "bin" >> }

CategoryCalls ==
    { [ op |-> "categorize", file_name |-> n, categories |-> m ] :
        n \in CategoryNames, m \in CategoryMaps }

\* get_output_file_path(file_info, config)
Categorize ==
    /\ probe.op = "categorize"
    /\ \E path \in output_file_paths(probe.file_name, probe.categories) :
          probe' = [ op |-> "categorized", file_name |-> probe.file_name,
                     categories |-> probe.categories, result |-> path ]
    /\ UNCHANGED engine

\* the Content-Disposition headers, URL paths and Content-Type headers that the
\* file name is derived from
ContentDispositions ==
    { NoHeader,
      << "inline" >>,
      << "attachment; ", QuotedMarker, "a", ".", "Z", Quote >>,
      << "attachment; ", PlainMarker, "a", ".", "Z" >>,
      << QuotedMarker, "a", Quote >> }

UrlPaths ==
    { << << >> >>,
      << << "testfile" >> >>,
      << << "dir" >>, << "file", ".", "txt" >> >>,
      << << "report", ".", "pdf" >> >>,
      << << "my", "%20", "file" >> >> }

ContentTypes ==
    { NoHeader, << "text/html", ";", " charset=utf-8" >>, << "application/pdf" >>,
      << "application/x-unknown" >> }

FileInfoCalls ==
    { [ op |-> "file info", url |-> u,
        headers |-> [content_disposition |-> cd, content_type |-> ct] ] :
        u \in UrlPaths, cd \in ContentDispositions, ct \in ContentTypes }

\* get_file_info_from_headers(url, headers)
FileInfo ==
    /\ probe.op = "file info"
    /\ probe' = [ op |-> "file name", url |-> probe.url, headers |-> probe.headers,
                  result |-> get_file_info_from_headers(probe.url, probe.headers) ]
    /\ UNCHANGED engine

InitUtils ==
    /\ probe \in ConflictCalls \cup CategoryCalls \cup FileInfoCalls
    /\ InitEngine

NextUtils == ResolveConflict \/ ResolveConflictAgain \/ Categorize \/ FileInfo

SpecUtils == InitUtils /\ [][NextUtils]_vars

\* -------------------------------------------------------------- properties

\* the path a finished transfer left its file at, as the store records it
StoredOutput(download) ==
    IF download.output_file # NoPath
    THEN download.output_file
    ELSE download.detected_output_file

\* C1: every job whose stored status is Completed has date_completed set, a
\* file exists at its stored output path (output_file, or detected_output_file
\* when no output_file is stored), and its scratch file does not exist.
C1_CompletedHasOutput ==
    \A i \in DOMAIN db :
        db[i].status = "Completed" =>
            /\ db[i].date_completed
            /\ StoredOutput(db[i]) \in files
            /\ scratch[i] = Absent

\* C2: a pause request for an id in downloading leads to status Paused with
\* the id removed from downloading and pause_requests: an id whose pause is
\* requested never leaves downloading other than Paused and with the request
\* cleared.
C2_PauseHonored ==
    [][\A i \in pause_requests :
          (i \in downloading /\ i \notin downloading') =>
              /\ i \notin pause_requests'
              /\ i \in DOMAIN db'
              /\ db'[i].status = "Paused"]_vars

\* C3: the number of jobs whose stored status is InProgress never exceeds the
\* configured cap by more than one per admission tick: after k ticks it is at
\* most max_sim_downloads + k.
C3_CapPlusOnePerTick ==
    Cardinality(get_in_progress_downloads) <= max_sim_downloads + ticks

\* C5: once a job's stored status is Completed, no control event and no
\* transfer step changes it (a step of the endpoint's store write aside).
C5_CompletedTerminal ==
    [][\A i \in DOMAIN db :
          (db[i].status = "Completed" /\ endpoint' = endpoint) =>
              (i \in DOMAIN db' /\ db'[i].status = "Completed")]_vars

\* C8: a cancel request for an id in downloading leads to status Canceled with
\* the id removed from downloading and cancel_requests: an id whose cancel is
\* requested never leaves downloading other than Canceled and with the request
\* cleared.
C8_CancelHonored ==
    [][\A i \in cancel_requests :
          (i \in downloading /\ i \notin downloading') =>
              /\ i \notin cancel_requests'
              /\ i \in DOMAIN db'
              /\ db'[i].status = "Canceled"]_vars

\* the slots a step spawned a transfer in
NewlySpawned == { t \in DOMAIN tasks : tasks[t].pc = "idle" /\ tasks'[t].pc = "spawned" }

\* C4: one admission tick that reads c jobs InProgress and p jobs Pending under
\* cap m spawns exactly min(p, max(0, m - c)) transfers, each for a distinct
\* Pending job; no job changes status in the tick, so the rest stay Pending.
C4_TickDispatches ==
    [][ticks' # ticks =>
          LET c == Cardinality({ i \in DOMAIN db : db[i].status = "InProgress" })
              pending == { i \in DOMAIN db : db[i].status = "Pending" }
              p == Cardinality(pending)
              m == max_sim_downloads
              room == IF m - c > 0 THEN m - c ELSE 0
              jobs == { tasks'[t].id : t \in NewlySpawned }
          IN  /\ Cardinality(NewlySpawned) = (IF p < room THEN p ELSE room)
              /\ Cardinality(jobs) = Cardinality(NewlySpawned)
              /\ jobs \subseteq pending
              /\ db' = db
              /\ \A t \in DOMAIN tasks \ NewlySpawned : tasks'[t] = tasks[t]]_vars

\* C4 witness: a tick found more Pending jobs than the cap has room for: with
\* nothing InProgress it spawned AdmCap transfers, and every job is still Pending.
C4_Witness ==
    /\ ticks = 1
    /\ Cardinality({ t \in DOMAIN tasks : tasks[t].pc = "spawned" }) = AdmCap
    /\ Cardinality(get_pending_downloads) = AdmJobs
    /\ AdmJobs > AdmCap

\* C6: a job leaves the store only in a step that handles Delete for it while
\* its stored status is Paused, Canceled, ServerError, ClientError or
\* UnknownError; handling Delete for a job in another status leaves the store
\* unchanged.
C6_DeleteOnlyIdle ==
    [][/\ \A i \in DOMAIN db :
             i \notin DOMAIN db' =>
                 /\ DeleteDownload(i)
                 /\ db[i].status \in { "Paused", "Canceled", "ServerError",
                                       "ClientError", "UnknownError" }
       /\ \A i \in DOMAIN db :
             (DeleteDownload(i)
                /\ db[i].status \in { "Pending", "Starting", "InProgress", "Completed" })
             => db' = db]_vars

\* C6 witness: the job that was created has been deleted.
C6_Witness == nextId > 1 /\ DOMAIN db = {}

\* C7: a transfer leaves the confirmation wait only on reading
\* data_confirmed = true from the store, and stays in the wait while the stored
\* flag is false; the scratch file is renamed and Completed is set only by a
\* transfer that holds data_confirmed = true.
C7_ConfirmationGates ==
    /\ [](\A t \in DOMAIN tasks :
             tasks[t].pc \in { "resolve", "completed" } =>
                 tasks[t].download.data_confirmed)
    /\ [][\A t \in DOMAIN tasks :
             tasks[t].pc = "confirm" =>
                 /\ (tasks[t].id \in DOMAIN db /\ ~db[tasks[t].id].data_confirmed)
                       => tasks'[t].pc = "confirm"
                 /\ tasks'[t].pc # "confirm"
                       => /\ tasks'[t].pc = "resolve"
                          /\ IF tasks[t].id \in DOMAIN db
                             THEN db[tasks[t].id].data_confirmed
                             ELSE tasks[t].download.data_confirmed]_vars
    /\ [][(files' # files \/ \E i \in DOMAIN db' :
                                /\ db'[i].status = "Completed"
                                /\ i \in DOMAIN db
                                /\ db[i].status # "Completed"
                                /\ endpoint' = endpoint)
             => \E t \in DOMAIN tasks :
                   /\ tasks[t].pc \in { "resolve", "completed" }
                   /\ tasks[t].download.data_confirmed]_vars

\* C7 witness: a transfer that read data_confirmed = false is in the
\* confirmation wait with its scratch file written, and the store now holds
\* data_confirmed = true: its next refresh lets it go on to the move.
C7_Witness ==
    \E t \in DOMAIN tasks :
        /\ tasks[t].pc = "confirm"
        /\ ~tasks[t].download.data_confirmed
        /\ tasks[t].id \in DOMAIN db
        /\ db[tasks[t].id].data_confirmed
        /\ scratch[tasks[t].id] > 0

C10_ResumeFrame ==
    [][\A i \in DOMAIN db :
          ResumeDownload(i) =>
              /\ db[i].status = "Paused" =>
                    db' = [db EXCEPT ![i].status = "Pending"]
              /\ db[i].status # "Paused" => db' = db
              /\ scratch' = scratch
              /\ downloading' = downloading
              /\ pause_requests' = pause_requests
              /\ cancel_requests' = cancel_requests]_vars

\* C10 witness: a job was paused by its transfer and a Resume made it Pending
\* again: it is Pending, its scratch file is kept and no transfer runs.
C10_Witness ==
    \E i \in DOMAIN db :
        /\ db[i].status = "Pending"
        /\ updates[i] = "Paused"
        /\ scratch[i] > 0
        /\ \A t \in DOMAIN tasks : tasks[t].pc = "idle"

\* C11: Restart of an idle job (Paused, Canceled or an error status) empties
\* its scratch file and sets its stored status to Pending; Restart of a job
\* that is Pending, Starting, InProgress or Completed changes neither the store
\* nor the scratch file.
C11_RestartEffect ==
    [][\A i \in DOMAIN db :
          RestartDownload(i) =>
              IF db[i].status \in { "Paused", "Canceled", "ServerError",
                                    "ClientError", "UnknownError" }
              THEN /\ db' = [db EXCEPT ![i].status = "Pending"]
                   /\ scratch'[i] = (IF scratch[i] = Absent THEN Absent ELSE 0)
                   /\ \A j \in DOMAIN scratch \ {i} : scratch'[j] = scratch[j]
              ELSE /\ db' = db
                   /\ scratch' = scratch]_vars

\* C11 witness: a job whose transfer ended in ServerError was restarted: it
\* is Pending again, its scratch file is empty and no transfer runs (only a
\* Restart requeues a job in an error status).
C11_Witness ==
    \E i \in DOMAIN db :
        /\ db[i].status = "Pending"
        /\ updates[i] = "ServerError"
        /\ scratch[i] = 0
        /\ endpoint.calls = 0
        /\ \A t \in DOMAIN tasks : tasks[t].pc = "idle"

\* C15 (resumable half): a transfer that starts on a resumable job whose
\* scratch file holds n > 0 bytes takes n as the start of its Range header
\* and keeps the bytes.
C15_ResumeKeepsBytes ==
    [][\A t \in DOMAIN tasks :
          (prepare_download(t) /\ scratch[tasks[t].id] > 0
             /\ tasks[t].download.resumable)
          => /\ tasks'[t].pc = "starting"
             /\ tasks'[t].start_byte = scratch[tasks[t].id]
             /\ scratch' = scratch]_vars

\* C15: a transfer that starts on a job whose scratch file holds n > 0 bytes
\* goes on to the request: with start byte n and the bytes kept if the job is
\* resumable, with no start byte and the scratch file truncated to zero if it
\* is not.
C15_ResumeSemantics ==
    [][\A t \in DOMAIN tasks :
          (prepare_download(t) /\ scratch[tasks[t].id] > 0)
          => /\ tasks'[t].pc = "starting"
             /\ IF tasks[t].download.resumable
                THEN /\ tasks'[t].start_byte = scratch[tasks[t].id]
                     /\ scratch' = scratch
                ELSE /\ tasks'[t].start_byte = Absent
                     /\ scratch'[tasks[t].id] = 0]_vars

\* C13: a job record inserted with new_download and read with
\* get_download_by_id on the returned id has every field as it was inserted.
C13_RoundTrip ==
    probe.op = "read" => probe.result = probe.download

\* C14: a Resume, Restart, Cancel or Delete event that names an id not in the
\* store leaves the store and the three id-sets unchanged.
C14_UnknownIdIgnored ==
    [][\A i \in Ids \ DOMAIN db :
          (ResumeDownload(i) \/ RestartDownload(i) \/ CancelDownload(i)
             \/ DeleteDownload(i))
          => /\ db' = db
             /\ downloading' = downloading
             /\ pause_requests' = pause_requests
             /\ cancel_requests' = cancel_requests]_vars

\* C12: handling NewDownload(url, confirmed) adds exactly one job, under an
\* id no job of the store has, with status Pending, data_confirmed equal to
\* the flag and every detection field empty; the jobs already in the store
\* are unchanged.
C12_NewDownloadAddsOne ==
    [][\A confirm \in BOOLEAN :
          new_download(confirm) =>
              \E i \in DOMAIN db' \ DOMAIN db :
                  /\ DOMAIN db' = DOMAIN db \cup {i}
                  /\ db'[i].status = "Pending"
                  /\ db'[i].data_confirmed = confirm
                  /\ db'[i].detected_output_file = NoPath
                  /\ db'[i].output_file = NoPath
                  /\ ~db'[i].resumable
                  /\ ~db'[i].date_completed
                  /\ \A j \in DOMAIN db : db'[j] = db[j]]_vars

\* C12 witness: a confirmed job was added to a store that held CtlJobs jobs,
\* one of them Completed.
C12_Witness ==
    /\ Cardinality(DOMAIN db) = CtlJobs + 1
    /\ \E i \in DOMAIN db : db[i].status = "Completed"
    /\ \E i \in DOMAIN db :
          /\ i = nextId - 1
          /\ db[i].status = "Pending"
          /\ db[i].data_confirmed
          /\ scratch[i] = Absent

\* C16: a client override the endpoint has stored is never discarded: no step
\* of a transfer or of the control loop turns a stored output_file back to
\* none, so that the transfer finds it when it resolves its output.
C16_OverrideKept ==
    [][\A i \in DOMAIN db :
          (db[i].output_file # NoPath /\ endpoint' = endpoint /\ i \in DOMAIN db')
          => db'[i].output_file # NoPath]_vars

\* C17: resolving the path that conflict resolution returned returns it again
C17_Idempotent ==
    probe.op = "resolved twice" => probe.again = probe.result

\* the path stem (i).ext in the candidate's directory, where stem is the
\* candidate's stem without a trailing " (N)" and ext its whole extension
NumberedPath(path, i) ==
    LET split == FilePathSplit(path.name)
    IN  [dir |-> path.dir,
         name |-> StripNumber(split[1]) \o << " (", ToString(i), ")", "." >> \o split[2]]

\* C18: for a candidate that exists the result is stem (i).ext for the smallest
\* i >= 1 whose path does not exist, and the result does not exist
C18_SmallestNumbered ==
    probe.op = "resolved" =>
        /\ probe.result \notin probe.existing
        /\ \E i \in 1..(Cardinality(probe.existing) + 1) :
              /\ probe.result = NumberedPath(probe.path, i)
              /\ \A j \in 1..(i - 1) : NumberedPath(probe.path, j) \in probe.existing

\* C19: a name that ends with an extension of a category is placed under the
\* directory of a category it matches (any of them when several match), and a
\* name that matches none under the default directory
C19_Categorized ==
    probe.op = "categorized" =>
        LET matching == MatchingCategories(probe.file_name, probe.categories)
        IN  IF matching # {}
            THEN \E c \in matching : probe.result.dir = probe.categories[c].directory
            ELSE probe.result.dir = default_directory

\* the file name a Content-Disposition value carries (none: the empty set)
CarriedName(content_disposition) ==
    LET q == Find(content_disposition, QuotedMarker)
        p == Find(content_disposition, PlainMarker)
    IN  IF q # 0
        THEN { SubSeq(content_disposition, q + 1, Len(content_disposition) - 1) }
        ELSE IF p # 0
             THEN { SubSeq(content_disposition, p + 1, Len(content_disposition)) }
             ELSE {}

\* the name before the extension rule: the header's file name, else the decoded
\* last path segment, else "download"
NameSoFar(url, headers) ==
    LET carried == CarriedName(headers.content_disposition)
    IN  IF headers.content_disposition # NoHeader /\ carried # {}
        THEN CHOOSE name \in carried : TRUE
        ELSE IF url[Len(url)] # << >> THEN decode(url[Len(url)]) ELSE << "download" >>

\* C20: the file name is the header's file name, else the decoded last path
\* segment, else "download"; the MIME extension is appended to it only when it
\* has no extension and the content type maps to a known one
C20_FileName ==
    probe.op = "file name" =>
        LET name == NameSoFar(probe.url, probe.headers)
            extension == ct_extension(probe.headers.content_type)
        IN  \/ probe.result = name
            \/ /\ NoExtension(name)
               /\ extension # << >>
               /\ probe.result = name \o << "." >> \o extension

\* the status bucket of the sorted listing
Bucket(status) ==
    CASE status = "InProgress" -> 1
      [] status = "Starting" -> 2
      [] status = "Pending" -> 3
      [] status = "Paused" -> 4
      [] status \in { "Canceled", "ServerError", "ClientError", "UnknownError" } -> 5
      [] status = "Completed" -> 6

\* C21: get_sorted_downloads returns every job once, ordered by status bucket
\* ascending and, within a bucket, by date_added descending
C21_SortedByActivity ==
    probe.op = "sorted" =>
        /\ Len(probe.result) = Cardinality(DOMAIN probe.table)
        /\ \A id \in DOMAIN probe.table :
              \E k \in 1..Len(probe.result) :
                  /\ probe.result[k].id = id
                  /\ probe.result[k].status = from_string(probe.table[id].status)
                  /\ probe.result[k].date_added = probe.table[id].date_added
        /\ \A i, j \in 1..Len(probe.result) :
              i < j =>
                \/ Bucket(probe.result[i].status) < Bucket(probe.result[j].status)
                \/ /\ Bucket(probe.result[i].status) = Bucket(probe.result[j].status)
                   /\ probe.result[i].date_added >= probe.result[j].date_added

\* a listing of three jobs: two of bucket 5, the newer first, then a Completed
\* job that is newer than the one before it
C21_Witness ==
    /\ probe.op = "sorted"
    /\ Len(probe.result) = 3
    /\ probe.result[1].status = "ServerError" /\ probe.result[1].date_added = 2
    /\ probe.result[2].status = "Canceled" /\ probe.result[2].date_added = 1
    /\ probe.result[3].status = "Completed" /\ probe.result[3].date_added = 2

\* C24: a job that a transfer moves to Starting had stored status Pending
\* immediately before
C24_PromotesOnlyPending ==
    [][\A t \in DOMAIN tasks :
          ( /\ tasks[t].pc = "starting"
            /\ tasks'[t].pc = "client"
            /\ tasks[t].id \in DOMAIN db
            /\ db'[tasks[t].id].status = "Starting" )
          => db[tasks[t].id].status = "Pending"]_vars

\* C26: a transfer that read a job with stored status Completed changes neither
\* the stored job nor the scratch and output files and publishes nothing
C26_CompletedDispatchNoEffect ==
    [][\A t \in DOMAIN tasks :
          ( /\ tasks[t].pc \in { "prepare", "starting" }
            /\ tasks[t].download.status = "Completed"
            /\ tasks'[t] # tasks[t] )
          => /\ db' = db
             /\ updates' = updates
             /\ scratch' = scratch
             /\ files' = files]_vars

\* the step ends the transfer in slot t by a return of download(): after the
\* client could not be built, after the output directory was found missing,
\* or at the return that follows a final status
TransferReturns(t) ==
    /\ tasks'[t] = IdleTask
    /\ \/ tasks[t].pc \in { "client", "remove" }
       \/ tasks[t].pc = "resolve" /\ updates' # updates

\* C25: a transfer that ends has published an Update for a final status and has
\* taken its id out of downloading
C25_EndedTransferCleansUp ==
    [][\A t \in DOMAIN tasks :
          TransferReturns(t) =>
              /\ tasks[t].id \notin downloading'
              /\ updates'[tasks[t].id] \in { "Completed", "Paused", "Canceled",
                                             "ClientError", "ServerError" }]_vars

\* C28: the write that ends change_output_file_path or confirm_download_data
\* leaves the stored status of every job as it was
C28_EndpointKeepsStatus ==
    [][(endpoint.op # "none" /\ endpoint'.op = "none") =>
          \A i \in DOMAIN db : db'[i].status = db[i].status]_vars

\* C29: a stored detected_output_file that is not empty never changes
C29_DetectedSetOnce ==
    [][\A i \in DOMAIN db :
          (db[i].detected_output_file # NoPath /\ i \in DOMAIN db')
          => db'[i].detected_output_file = db[i].detected_output_file]_vars

\* the events a transfer publishes that the endpoint has a signal for
IsStatus(event) == event.type \in { "DownloadUpdate", "DownloadProgress" }

\* C22: the signals the relay has emitted are the Update and Progress events
\* published before its position, with their payloads and in publication
\* order, and nothing else; every Update or Progress event past its position
\* is still in the channel for a relay that is still receiving
C22_RelayedInOrder ==
    /\ bus.signals = SelectSeq(SubSeq(bus.sent, 1, bus.relay.next - 1), IsStatus)
    /\ \A k \in bus.relay.next..Len(bus.sent) :
          IsStatus(bus.sent[k]) =>
              /\ bus.relay.running
              /\ k >= Len(bus.sent) - bus.capacity + 1

\* C23: the step in which the control loop handles Delete(id) and takes the
\* job out of the store publishes a Delete(id) status event
C23_DeletePublished ==
    [][\A id \in DOMAIN db :
          ( /\ Receives(bus.control, ControlEvent("DeleteDownload", id))
            /\ bus'.control.next = bus.control.next + 1
            /\ id \notin DOMAIN db' )
          => \E k \in (Len(bus.sent) + 1)..Len(bus'.sent) :
                 bus'.sent[k] = ControlEvent("DownloadDelete", id)]_vars

\* C27: the control loop and the relay are receiving in every state
C27_ReceiversKeepRunning ==
    bus.control.running /\ bus.relay.running

\* the status of the last Update the transfer in slot t has published
LastPublished(t) ==
    IF tasks[t].pc \in { "idle", "spawned", "prepare", "starting" }
    THEN "none"
    ELSE tasks[t].download.status

\* the place of a status in a transfer's transitions
TransitionRank(status) ==
    CASE status = "none" -> 0
      [] status = "Starting" -> 1
      [] status = "InProgress" -> 2
      [] OTHER -> 3

\* the statuses of the Update events a step appends to the bus
PublishedStatuses ==
    [ k \in 1..Cardinality({ j \in (Len(bus.sent) + 1)..Len(bus'.sent) :
                                bus'.sent[j].type = "DownloadUpdate" }) |->
        SelectSeq(SubSeq(bus'.sent, Len(bus.sent) + 1, Len(bus'.sent)),
                  LAMBDA e : e.type = "DownloadUpdate")[k].status ]

Handles(event) ==
    /\ Receives(bus.control, event)
    /\ bus'.control.next = bus.control.next + 1

\* C31: the handling of Pause(id) for an id that is not in downloading leaves
\* the store, both request sets and downloading as they were
C31_PauseIgnored ==
    [][\A id \in 1..MaxJobs :
          (Handles(ControlEvent("PauseDownload", id)) /\ id \notin downloading)
          => UNCHANGED << db, pause_requests, cancel_requests, downloading >>]_vars

\* a Pause for job 1 has been handled although no transfer of the job ever
\* reached prepare_download
C31_Witness ==
    /\ \E k \in 1..(bus.control.next - 1) :
          k <= Len(bus.sent) /\ bus.sent[k] = ControlEvent("PauseDownload", 1)
    /\ 1 \in DOMAIN db
    /\ updates[1] = "none"
    /\ downloading = {}
    /\ pause_requests = {}

\* C32: the read of a row whose status text is none of the nine tags gives
\* its caller an error value
C32_UnknownTagIsError ==
    (probe.op = "row_read"
       /\ probe.row.status \notin { get_string(status) : status \in Statuses })
    => probe.result.outcome = "error"

\* C33: no two transfer tasks are running for the same job
C33_OneTransferPerJob ==
    \A t, u \in DOMAIN tasks :
        (t # u /\ tasks[t].pc # "idle" /\ tasks[u].pc # "idle")
        => tasks[t].id # tasks[u].id

\* C34: a job stored as Starting or InProgress has a transfer task running
C34_InFlightHasTransfer ==
    \A i \in DOMAIN db :
        db[i].status \in { "Starting", "InProgress" }
        => \E t \in DOMAIN tasks : tasks[t].pc # "idle" /\ tasks[t].id = i

\* C35: the id of a transfer task that is past prepare_download and has not
\* ended is in downloading
C35_TransferInDownloading ==
    \A t \in DOMAIN tasks :
        tasks[t].pc \notin { "idle", "spawned", "prepare" }
        => tasks[t].id \in downloading

\* C36: an id for which no transfer task is running is in neither request set
C36_NoStaleRequests ==
    \A id \in pause_requests \cup cancel_requests :
        \E t \in DOMAIN tasks : tasks[t].pc # "idle" /\ tasks[t].id = id

\* the lifecycle relation: the changes of a stored status the transfers and
\* the control events are meant to make
Lifecycle(from, to) ==
    \/ from = "Pending" /\ to = "Starting"
    \/ from = "Starting" /\ to \in { "InProgress", "ClientError" }
    \/ from = "InProgress" /\ to \in { "Paused", "Canceled", "Completed",
                                        "ServerError", "ClientError" }
    \/ from = "Paused" /\ to = "Pending"
    \/ from \in { "Paused", "Canceled", "ClientError", "ServerError",
                  "UnknownError" } /\ to = "Pending"
    \/ from \notin { "Starting", "InProgress", "Completed" } /\ to = "Canceled"

\* C37: every change of the stored status of a job is in the lifecycle relation
C37_LifecycleOnly ==
    [][\A i \in DOMAIN db \cap DOMAIN db' :
          db'[i].status # db[i].status => Lifecycle(db[i].status, db'[i].status)]_vars

\* C38: a job for which confirm_download_data has returned is stored as
\* confirmed for as long as it is in the store
C38_ConfirmationKept ==
    \A i \in endpoint.confirmed \cap DOMAIN db : db[i].data_confirmed

\* Completed and the error statuses
TerminalStatuses == { "Completed", "ClientError", "ServerError", "UnknownError" }

\* C39: a transfer that is confirmed and has its whole body in the scratch
\* file ends only with a terminal status stored for its job
C39_ResolutionNeverAborts ==
    [][\A t \in DOMAIN tasks :
          ( /\ tasks[t].pc = "resolve"
            /\ scratch[tasks[t].id] # Absent
            /\ tasks'[t].pc = "idle" )
          => /\ tasks[t].id \in DOMAIN db'
             /\ db'[tasks[t].id].status \in TerminalStatuses]_vars

\* C40: every job that is Pending is moved to Starting later on
C40_NoStarvation ==
    \A i \in 1..FairJobs :
        (i \in DOMAIN db /\ db[i].status = "Pending")
        ~> (i \in DOMAIN db /\ db[i].status = "Starting")

====
